---- MODULE Spec2Model ----
(***************************************************************************)
(* TeleQuip: a party game run by a Telegram bot.  The model covers the     *)
(* session registry (GameManager.active_games), the Game objects, the      *)
(* command / callback / message handlers of bot.py and the round timer     *)
(* task created by GameManager.start_round.                                *)
(*                                                                         *)
(* Modelling decisions                                                     *)
(*  - Game objects live in a heap (games); the registry and every round    *)
(*    timer task hold an index into it, so a task keeps its Game after     *)
(*    stop_game deleted the registry entry, as the Python reference does.  *)
(*  - Python dicts keep insertion order: active_games and players are      *)
(*    sequences of keys.                                                   *)
(*  - Handlers run one update at a time (python-telegram-bot's default,    *)
(*    bot.py:193), so a handler is one action.  The round timer task is a  *)
(*    separate asyncio task, one action per stretch between its sleeps.    *)
(*  - Telegram message identifiers are unique within a private chat: the   *)
(*    prompt message sent by Game object g in round r for prompt index i   *)
(*    is named [g, r, i].                                                  *)
(*  - Prompt texts are not modelled; a versus pair carries the prompt      *)
(*    identifier in the place of the text.  Every user has a username.     *)
(*  - A private send may raise for any player (the user blocked the bot    *)
(*    or never opened the chat, bot.py:121-122): which send raises is an   *)
(*    input of the step.  Sends to the group do not raise.                 *)
(*  - A Game object that neither the registry nor a running task refers    *)
(*    to is unreachable for the program; the heap keeps the value Freed in *)
(*    its place.                                                           *)
(*  - Scores are Python floats: the model computes them as IEEE 754        *)
(*    doubles, rounding included.                                          *)
(*  - Time is abstract: a sleep ends in its own step.  POLL_TIMING and     *)
(*    LAST_REMINDER_TIME, which game_manager.py imports and config.py      *)
(*    does not define, are taken to be positive numbers of seconds.        *)
(*  - Updates the handlers answer without a change of state (a command in  *)
(*    a private chat, a join that is rejected, a reply to a message that   *)
(*    is no prompt, a vote on an unknown poll) are no steps.               *)
(***************************************************************************)
EXTENDS Integers, Sequences, FiniteSets, TLC

\* ---- bounds of the model
NumUsers == 3
NumGroups == 2
MaxGames == 2
MaxTasks == 2
MaxRound == 2
MaxVotes == 3
MaxReplies == 2
MaxVoters == 6
MaxIds == 5
MaxM == 3
LobbyRoom == 3

\* ---- program constants
MAX_PLAYERS == 8
DEFAULT_M == 2

Users == 1..NumUsers
Groups == 1..NumGroups
Texts == {"a", "b"}
None == "None"
NoResponse == "NoResponse"
\* the names of the tasks, polls and prompt messages a run can hold
TaskIds == 1..MaxTasks
PollIds == 1..(MaxTasks * NumUsers)
PromptMsgs == {[g |-> o, r |-> n, i |-> idx] : o \in 1..MaxGames, n \in 1..MaxRound, idx \in 0..(DEFAULT_M - 1)}
EmptyMap == [x \in {} |-> 0]

VARIABLES
    active_games,   \* GameManager.active_games: sequence of [group, obj]
    games,          \* heap of Game objects, index = object identity
    tasks,          \* the _round_timer tasks ever created
    polls,          \* number of polls Telegram has created so far
    nvotes,         \* poll answers delivered so far
    nreplies,       \* private replies recorded so far
    edge_call       \* a call of _build_prompt_edges: its arguments and its result

vars == <<active_games, games, tasks, polls, nvotes, nreplies, edge_call>>

\* ---- generic helpers
Min(a, b) == IF a < b THEN a ELSE b

Range(s) == {s[i] : i \in DOMAIN s}

Perms(S) == {s \in [1..Cardinality(S) -> S] : \A i, j \in 1..Cardinality(S) : i # j => s[i] # s[j]}

\* ---- Python floats: IEEE 754 binary64, round to nearest, ties to even.
\* A natural number is a sequence of limbs in base 2^20, least significant
\* first.  A positive double is [m, e] and stands for m * 2^e, m a 53-bit
\* natural held in three limbs; 0.0 is DZero.  Scores stay far from the
\* exponent range's ends, so there are no subnormals, infinities or NaNs.
LimbBits == 20

Base == 2 ^ LimbBits

MantBits == 53

DZero == [m |-> <<0, 0, 0>>, e |-> 0]

Limb(a, j) == IF j \in DOMAIN a THEN a[j] ELSE 0

RECURSIVE big_add(_, _, _)
big_add(a, b, carry) ==
    IF a = <<>> /\ b = <<>> THEN (IF carry = 0 THEN <<>> ELSE <<carry>>)
    ELSE LET s == Limb(a, 1) + Limb(b, 1) + carry
         IN <<s % Base>> \o big_add(IF a = <<>> THEN a ELSE Tail(a),
                                    IF b = <<>> THEN b ELSE Tail(b), s \div Base)

\* a * k for a small factor k
RECURSIVE big_scale(_, _, _)
big_scale(a, k, carry) ==
    IF a = <<>> THEN (IF carry = 0 THEN <<>> ELSE <<carry>>)
    ELSE <<(a[1] * k + carry) % Base>> \o big_scale(Tail(a), k, (a[1] * k + carry) \div Base)

IntBitLen(x) == CHOOSE k \in 0..LimbBits : x < 2 ^ k /\ (k = 0 \/ x >= 2 ^ (k - 1))

TopLimb(a) == IF \E j \in DOMAIN a : a[j] # 0 THEN CHOOSE j \in DOMAIN a : a[j] # 0 /\ \A k \in DOMAIN a : k > j => a[k] = 0 ELSE 0

BitLen(a) == IF TopLimb(a) = 0 THEN 0 ELSE LimbBits * (TopLimb(a) - 1) + IntBitLen(a[TopLimb(a)])

\* bit i of a, bit 0 the least significant
BigBit(a, i) == (Limb(a, (i \div LimbBits) + 1) \div 2 ^ (i % LimbBits)) % 2

\* floor(a / 2^s) and a * 2^s
ShiftRight(a, s) ==
    LET q == s \div LimbBits
        r == s % LimbBits
    IN [j \in 1..Len(a) |-> (Limb(a, j + q) \div 2 ^ r) + (Limb(a, j + q + 1) % 2 ^ r) * 2 ^ (LimbBits - r)]

ShiftLeft(a, s) ==
    LET q == s \div LimbBits
        r == s % LimbBits
    IN [j \in 1..(Len(a) + q + 1) |->
           (Limb(a, j - q) % 2 ^ (LimbBits - r)) * 2 ^ r + (Limb(a, j - q - 1) \div 2 ^ (LimbBits - r))]

BigLeq(a, b) ==
    LET n == IF Len(a) > Len(b) THEN Len(a) ELSE Len(b)
    IN (\A j \in 1..n : Limb(a, j) = Limb(b, j))
       \/ \E j \in 1..n : Limb(a, j) < Limb(b, j) /\ \A k \in (j + 1)..n : Limb(a, k) = Limb(b, k)

Mantissa(a) == <<Limb(a, 1), Limb(a, 2), Limb(a, 3)>>

\* the double nearest to a * 2^e
Round53(a, e) ==
    LET n == BitLen(a)
        s == n - MantBits
    IN IF n = 0 THEN DZero
       ELSE IF s <= 0 THEN [m |-> Mantissa(ShiftLeft(a, -s)), e |-> e + s]
       ELSE LET keep == ShiftRight(a, s)
                half == BigBit(a, s - 1) = 1
                more == \E i \in 0..(s - 2) : BigBit(a, i) = 1
                up == half /\ (more \/ BigBit(keep, 0) = 1)
                kept == IF up THEN big_add(keep, <<1>>, 0) ELSE keep
            IN IF BitLen(kept) > MantBits
               THEN [m |-> Mantissa(ShiftRight(kept, 1)), e |-> e + s + 1]
               ELSE [m |-> Mantissa(kept), e |-> e + s]

\* a / b for ints a >= 0 and b > 0, which Python rounds correctly: four
\* limbs of the quotient's fraction by long division, the last one made odd
\* when the division has a remainder, then one rounding
RECURSIVE LongDiv(_, _, _)
LongDiv(r, b, k) ==
    IF k = 0 THEN <<IF r = 0 THEN 0 ELSE 1>>
    ELSE Append(LongDiv((r * Base) % b, b, k - 1), (r * Base) \div b)

true_div(a, b) ==
    LET q == LongDiv(a % b, b, 4)
    IN Round53(<<q[2] + (IF q[1] = 1 /\ q[2] % 2 = 0 THEN 1 ELSE 0), q[3], q[4], q[5], a \div b>>,
               0 - 4 * LimbBits)

\* the float of a small int
FloatOf(n) == true_div(n, 1)

\* 100.0 * x
mul_100(x) == Round53(big_scale(x.m, 100, 0), x.e)

\* x + y
float_add(x, y) ==
    IF x = DZero THEN y
    ELSE IF y = DZero THEN x
    ELSE LET e == IF x.e < y.e THEN x.e ELSE y.e
         IN Round53(big_add(ShiftLeft(x.m, x.e - e), ShiftLeft(y.m, y.e - e), 0), e)

\* x <= y
float_leq(x, y) ==
    LET e == IF x.e < y.e THEN x.e ELSE y.e
    IN x = DZero \/ (y # DZero /\ BigLeq(ShiftLeft(x.m, x.e - e), ShiftLeft(y.m, y.e - e)))

\* init_scores if it started every player at zero again
init_scores_reset(game) == [u \in Range(game.players) |-> DZero]

\* ---- models/Game.py
Game(group_id) ==
    [group_id |-> group_id, players |-> <<>>, round |-> 0, locked |-> FALSE,
     pending_answers |-> EmptyMap, versus_pairs |-> <<>>, scores |-> EmptyMap,
     votes |-> EmptyMap, prompt_messages |-> EmptyMap, poll_map |-> EmptyMap,
     assigned_prompts |-> EmptyMap, completed_polls |-> {}]

init_scores(game) ==
    [u \in Range(game.players) \cup DOMAIN game.scores |->
        IF u \in DOMAIN game.scores THEN game.scores[u] ELSE DZero]

\* is_full if it let one more player in
is_full_above(game, max_players) == Len(game.players) > max_players

is_full(game, max_players) == Len(game.players) >= max_players

\* ---- core/player_manager.py: returns the players and the flag "added"
add_player(game, user_id) ==
    IF user_id \notin Range(game.players)
    THEN [players |-> Append(game.players, user_id), added |-> TRUE]
    ELSE [players |-> game.players, added |-> FALSE]

\* ---- GameManager: the registry
RegGroups(reg) == {reg[i].group : i \in DOMAIN reg}

get_game_in(reg, group_id) ==
    IF group_id \in RegGroups(reg)
    THEN (CHOOSE i \in DOMAIN reg : reg[i].group = group_id)
    ELSE 0

get_game(group_id) ==
    LET i == get_game_in(active_games, group_id)
    IN IF i = 0 THEN 0 ELSE active_games[i].obj

\* create_game without the test of line 17: a second entry for the group
create_game_unguarded(reg, heap, group_id) ==
    [active_games |-> Append(reg, [group |-> group_id, obj |-> Len(heap) + 1]),
     games |-> Append(heap, Game(group_id)),
     ret |-> Len(heap) + 1]

\* create_game: the new registry, the new heap and the returned object (0 = None)
create_game(reg, heap, group_id) ==
    IF group_id \in RegGroups(reg)
    THEN [active_games |-> reg, games |-> heap, ret |-> 0]
    ELSE [active_games |-> Append(reg, [group |-> group_id, obj |-> Len(heap) + 1]),
          games |-> Append(heap, Game(group_id)),
          ret |-> Len(heap) + 1]

stop_game(reg, group_id) ==
    IF group_id \in RegGroups(reg)
    THEN SelectSeq(reg, LAMBDA e : e.group # group_id)
    ELSE reg

ActiveObjs == {active_games[i].obj : i \in DOMAIN active_games}

\* ---- GameManager._build_prompt_edges
Canon(a, b) == IF a < b THEN <<a, b>> ELSE <<b, a>>

\* effective_m without the parity step of lines 83-84
EffectiveM_no_parity(n, m) == Min(m, n - 1)

EffectiveM(n, m) ==
    LET e == Min(m, n - 1)
    IN IF (n * e) % 2 = 1 THEN e - 1 ELSE e

CirculantEdges(user_ids, effective_m) ==
    LET n == Len(user_ids)
        ring == {<<i, k>> \in (0..(n - 1)) \X (1..(effective_m \div 2)) :
                    user_ids[i + 1] # user_ids[((i + k) % n) + 1]}
        matching == IF effective_m % 2 = 1 /\ n % 2 = 0
                    THEN {Canon(user_ids[i + 1], user_ids[i + (n \div 2) + 1]) : i \in 0..((n \div 2) - 1)}
                    ELSE {}
    IN {Canon(user_ids[ik[1] + 1], user_ids[((ik[1] + ik[2]) % n) + 1]) : ik \in ring} \cup matching

\* _build_prompt_edges with the test of line 79 as n >= 2
build_prompt_edges_repeated(user_ids, m) ==
    LET n == Len(user_ids)
    IN IF n < 2 \/ m <= 0 THEN {<< <<>>, 0 >>}
       ELSE {<< [i \in 1..m |-> <<user_ids[1], user_ids[2]>>], m >>}

\* _build_prompt_edges without the repetition (* m) of line 80
build_prompt_edges_single(user_ids, m) ==
    LET n == Len(user_ids)
    IN IF n < 2 \/ m <= 0 THEN {<< <<>>, 0 >>}
       ELSE IF n = 2 THEN {<< << <<user_ids[1], user_ids[2]>> >>, m >>}
       ELSE IF EffectiveM(n, m) <= 0 THEN {<< <<>>, 0 >>}
       ELSE {<<p, EffectiveM(n, m)>> : p \in Perms(CirculantEdges(user_ids, EffectiveM(n, m)))}

\* the set of results random.shuffle allows: <<edges_list, effective_m>>
build_prompt_edges(user_ids, m) ==
    LET n == Len(user_ids)
    IN IF n < 2 \/ m <= 0 THEN {<< <<>>, 0 >>}
       ELSE IF n = 2 THEN {<< [i \in 1..m |-> <<user_ids[1], user_ids[2]>>], m >>}
       ELSE IF EffectiveM(n, m) <= 0 THEN {<< <<>>, 0 >>}
       ELSE {<<p, EffectiveM(n, m)>> : p \in Perms(CirculantEdges(user_ids, EffectiveM(n, m)))}

\* lines 126-129: every result of the two shuffles for the players of a Game
Shuffles(players, m) ==
    UNION {build_prompt_edges(ids, m) : ids \in Perms(Range(players))}

\* no call under way
NoCall == [user_ids |-> <<>>, m |-> 0, returned |-> FALSE, edges |-> <<>>, effective_m |-> 0]

\* ---- GameManager.start_round
\* the loop of lines 137-141 without line 141: only u gets the prompt
RECURSIVE AssignEdges_first_only(_, _, _, _)
AssignEdges_first_only(assigned, edges, round, i) ==
    IF i > Len(edges) THEN assigned
    ELSE AssignEdges_first_only([assigned EXCEPT ![edges[i][1]] = Append(@, <<round, i - 1>>)],
                                edges, round, i + 1)

RECURSIVE AssignEdges(_, _, _, _)
AssignEdges(assigned, edges, round, i) ==
    IF i > Len(edges) THEN assigned
    ELSE LET pid == <<round, i - 1>>
             a1 == [assigned EXCEPT ![edges[i][1]] = Append(@, pid)]
             a2 == [a1 EXCEPT ![edges[i][2]] = Append(@, pid)]
         IN AssignEdges(a2, edges, round, i + 1)

\* start_round if line 154 registered the number shown in the message (idx+1)
start_round_one_based(game, obj, built, ff) ==
    LET P == Range(game.players)
        round == game.round + 1
        assigned == AssignEdges([u \in P |-> <<>>], built[1], round, 1)
        served == IF ff = 0 THEN P ELSE {game.players[j] : j \in 1..(ff - 1)}
    IN [game EXCEPT
            !.scores = init_scores(game),
            !.round = round,
            !.prompt_messages =
                [u \in P |-> IF u \in served
                             THEN [mid \in {[g |-> obj, r |-> round, i |-> idx] : idx \in 0..(Len(assigned[u]) - 1)} |-> mid.i + 1]
                             ELSE EmptyMap],
            !.assigned_prompts = assigned,
            !.votes = EmptyMap,
            !.poll_map = EmptyMap,
            !.completed_polls = {},
            !.pending_answers = [u \in P |-> [i \in 1..built[2] |-> None]]]

\* the Game after start_round ran with the shuffle result built = <<edges, effective_m>>;
\* ff is the position in players of the player whose first send raises (0 = none):
\* the loop of lines 143-154 stops there and line 157 is not reached
start_round(game, obj, built, ff) ==
    LET P == Range(game.players)
        round == game.round + 1
        assigned == AssignEdges([u \in P |-> <<>>], built[1], round, 1)
        served == IF ff = 0 THEN P ELSE {game.players[j] : j \in 1..(ff - 1)}
    IN [game EXCEPT
            !.scores = init_scores(game),
            !.round = round,
            !.prompt_messages =
                [u \in P |-> IF u \in served
                             THEN [mid \in {[g |-> obj, r |-> round, i |-> idx] : idx \in 0..(Len(assigned[u]) - 1)} |-> mid.i]
                             ELSE EmptyMap],
            !.assigned_prompts = assigned,
            !.votes = EmptyMap,
            !.poll_map = EmptyMap,
            !.completed_polls = {},
            !.pending_answers = [u \in P |-> [i \in 1..built[2] |-> None]]]

\* ---- the _round_timer task: its Game, its position and its locals
NewTask(obj) == [game |-> obj, pc |-> "half", pairs |-> <<>>, k |-> 0, poll |-> 0, elapsed |-> FALSE]

EndedTask(obj, pc) == [game |-> obj, pc |-> pc, pairs |-> <<>>, k |-> 0, poll |-> 0, elapsed |-> FALSE]

Running(t) == t.pc \in {"half", "warn", "last", "wait"}

Freed == Game(0)

\* the heap after the objects no reference reaches were released
Collect(heap, reg, ts) ==
    [o \in DOMAIN heap |->
        IF \/ \E i \in DOMAIN reg : reg[i].obj = o
           \/ \E i \in DOMAIN ts : ts[i].game = o /\ Running(ts[i])
        THEN heap[o] ELSE Freed]

\* ---- GameManager.build_versus_pairs
\* the (prompt_id, user_id, idx) entries in the order lines 171-176 visit them
RECURSIVE PromptEntries(_, _, _, _)
PromptEntries(game, order, ui, idx) ==
    IF ui > Len(order) THEN <<>>
    ELSE IF idx > Len(game.assigned_prompts[order[ui]]) THEN PromptEntries(game, order, ui + 1, 1)
    ELSE << <<game.assigned_prompts[order[ui]][idx], order[ui], idx - 1>> >>
            \o PromptEntries(game, order, ui, idx + 1)

\* the keys of prompt_map if they were visited in sorted order
RECURSIVE PromptIds_sorted(_)
PromptIds_sorted(entries) ==
    LET ids == {entries[i][1] : i \in DOMAIN entries}
    IN IF ids = {} THEN <<>>
       ELSE LET least == CHOOSE x \in ids : \A y \in ids : x[1] < y[1] \/ (x[1] = y[1] /\ x[2] <= y[2])
            IN <<least>> \o PromptIds_sorted(SelectSeq(entries, LAMBDA e : e[1] # least))

\* the keys of prompt_map, in insertion order
RECURSIVE PromptIds(_)
PromptIds(entries) ==
    IF entries = <<>> THEN <<>>
    ELSE LET rest == PromptIds(SubSeq(entries, 1, Len(entries) - 1))
             last == entries[Len(entries)][1]
         IN IF last \in Range(rest) THEN rest ELSE Append(rest, last)

\* entries.sort(key=lambda x: x[0]): stable, by user_id
RECURSIVE SortEntries(_)
SortEntries(es) ==
    IF Len(es) <= 1 THEN es
    ELSE LET i == CHOOSE i \in DOMAIN es :
                    /\ \A j \in DOMAIN es : es[i][2] <= es[j][2]
                    /\ \A j \in 1..(i - 1) : es[j][2] # es[i][2]
         IN <<es[i]>> \o SortEntries(SubSeq(es, 1, i - 1) \o SubSeq(es, i + 1, Len(es)))

\* the pairs (0,1), (2,3), ... of one prompt's sorted entries
RECURSIVE PairUp(_, _, _)
PairUp(pid, es, i) ==
    IF i + 1 > Len(es) THEN <<>>
    ELSE << <<pid, es[i][2], es[i][3], es[i + 1][2], es[i + 1][3]>> >> \o PairUp(pid, es, i + 2)

RECURSIVE PairsOf(_, _, _)
PairsOf(entries, pids, n) ==
    IF n > Len(pids) THEN <<>>
    ELSE LET es == SelectSeq(entries, LAMBDA e : e[1] = pids[n])
         IN (IF Len(es) < 2 THEN <<>> ELSE PairUp(pids[n], SortEntries(es), 1))
            \o PairsOf(entries, pids, n + 1)

build_versus_pairs(game) ==
    LET order == SelectSeq(game.players, LAMBDA u : u \in DOMAIN game.assigned_prompts)
        entries == PromptEntries(game, order, 1, 1)
    IN PairsOf(entries, PromptIds(entries), 1)

\* calculate_poll_score with floor division (//) in lines 238-239
calculate_poll_score_floor_div(game, poll_id) ==
    IF poll_id \notin DOMAIN game.poll_map THEN game
    ELSE LET p1_id == game.poll_map[poll_id][1]
             p2_id == game.poll_map[poll_id][2]
             votes == IF poll_id \in DOMAIN game.votes THEN game.votes[poll_id] ELSE EmptyMap
             total_votes == Cardinality(DOMAIN votes)
             s0 == [u \in DOMAIN game.scores \cup {p1_id, p2_id} |->
                        IF u \in DOMAIN game.scores THEN game.scores[u] ELSE DZero]
             p1_votes == Cardinality({v \in DOMAIN votes : votes[v] = 0})
             p2_votes == total_votes - p1_votes
             p1_points == IF total_votes = 0 THEN FloatOf(50) ELSE FloatOf(100 * (p1_votes \div total_votes))
             p2_points == IF total_votes = 0 THEN FloatOf(50) ELSE FloatOf(100 * (p2_votes \div total_votes))
             s1 == [s0 EXCEPT ![p1_id] = float_add(@, p1_points)]
             s2 == [s1 EXCEPT ![p2_id] = float_add(@, p2_points)]
         IN [game EXCEPT !.scores = s2, !.completed_polls = @ \cup {poll_id}]

\* ---- GameManager.calculate_poll_score: the Game afterwards
calculate_poll_score(game, poll_id) ==
    IF poll_id \notin DOMAIN game.poll_map THEN game
    ELSE LET p1_id == game.poll_map[poll_id][1]
             p2_id == game.poll_map[poll_id][2]
             votes == IF poll_id \in DOMAIN game.votes THEN game.votes[poll_id] ELSE EmptyMap
             total_votes == Cardinality(DOMAIN votes)
             s0 == [u \in DOMAIN game.scores \cup {p1_id, p2_id} |->
                        IF u \in DOMAIN game.scores THEN game.scores[u] ELSE DZero]
             p1_votes == Cardinality({v \in DOMAIN votes : votes[v] = 0})
             p2_votes == total_votes - p1_votes
             p1_points == IF total_votes = 0 THEN FloatOf(50) ELSE mul_100(true_div(p1_votes, total_votes))
             p2_points == IF total_votes = 0 THEN FloatOf(50) ELSE mul_100(true_div(p2_votes, total_votes))
             s1 == [s0 EXCEPT ![p1_id] = float_add(@, p1_points)]
             s2 == [s1 EXCEPT ![p2_id] = float_add(@, p2_points)]
         IN [game EXCEPT !.scores = s2, !.completed_polls = @ \cup {poll_id}]

\* ---- GameManager.start_versus_phase, one iteration of the loop of line 262:
\* the task t turns to pair number k; new_game is its Game at that moment
OpenPoll(t, k, new_game) ==
    IF k > Len(t.pairs)
    THEN [game |-> new_game, task |-> EndedTask(t.game, "done"), polls |-> polls]
    ELSE LET pr == t.pairs[k]
             found(u, idx) == /\ u \in DOMAIN new_game.pending_answers
                              /\ idx + 1 \in DOMAIN new_game.pending_answers[u]
         IN IF ~(found(pr[2], pr[3]) /\ found(pr[4], pr[5]))
            THEN [game |-> new_game, task |-> EndedTask(t.game, "failed"), polls |-> polls]
            ELSE [game |-> [new_game EXCEPT
                                !.votes = [p \in DOMAIN @ \cup {polls + 1} |->
                                              IF p = polls + 1 THEN EmptyMap ELSE @[p]],
                                !.poll_map = [p \in DOMAIN @ \cup {polls + 1} |->
                                              IF p = polls + 1 THEN <<pr[2], pr[4]>> ELSE @[p]]],
                  task |-> [t EXCEPT !.pc = "wait", !.k = k, !.poll = polls + 1, !.elapsed = FALSE],
                  polls |-> polls + 1]

\* ---- the bounds of a run.  A specification bounds the runs it explores by
\* the number of Game objects, rounds started, round timer tasks, poll
\* answers and private replies; the handlers take the bounds as L and check
\* them before the code's own conditions.  All five only grow, so the states
\* a specification reaches are the program's reachable states within L.
RECURSIVE Rounds(_, _)
Rounds(heap, o) == IF o > Len(heap) THEN 0 ELSE heap[o].round + Rounds(heap, o + 1)

Limits(ng, nr, nt, nv, np) == [games |-> ng, rounds |-> nr, tasks |-> nt, votes |-> nv, replies |-> np]

MayCreate(L) == Len(games) < L.games
MayStart(L) == Rounds(games, 1) < L.rounds
MayVote(L) == nvotes < L.votes
MayReply(L) == nreplies < L.replies
MaySchedule(L, ts) == Len(ts) <= L.tasks

Init ==
    /\ active_games = <<>>
    /\ games = <<>>
    /\ tasks = <<>>
    /\ polls = 0
    /\ nvotes = 0
    /\ nreplies = 0
    /\ edge_call = NoCall

\* ---- bot.py: init_game
InitGame(g, L) ==
    /\ MayCreate(L)
    /\ get_game(g) = 0
    /\ LET c == create_game(active_games, games, g)
       IN /\ active_games' = c.active_games
          /\ games' = c.games
    /\ UNCHANGED <<tasks, polls, nvotes, nreplies, edge_call>>

\* ---- bot.py: join_game.  The result of user_id pressing the join button
\* of group_id: the heap and what the group is told
join_game(reg, heap, group_id, user_id) ==
    LET i == get_game_in(reg, group_id)
    IN IF i = 0 THEN [games |-> heap, reply |-> "no game"]
       ELSE LET obj == reg[i].obj
                game == heap[obj]
            IN IF game.locked THEN [games |-> heap, reply |-> "begun"]
               ELSE IF is_full(game, MAX_PLAYERS) THEN [games |-> heap, reply |-> "full"]
               ELSE IF add_player(game, user_id).added
                    THEN [games |-> [heap EXCEPT ![obj].players = add_player(game, user_id).players],
                          reply |-> "joined"]
                    ELSE [games |-> heap, reply |-> "already"]

JoinGame(g, u) ==
    /\ join_game(active_games, games, g, u).reply = "joined"
    /\ games' = join_game(active_games, games, g, u).games
    /\ UNCHANGED <<active_games, tasks, polls, nvotes, nreplies, edge_call>>

\* the part of start_game and next_round after their checks
RunStartRound(obj, game, L) ==
    /\ MayStart(L)
    /\ \E built \in Shuffles(game.players, DEFAULT_M) :
         \E ff \in 0..Len(game.players) :
            /\ games' = [games EXCEPT ![obj] = start_round(game, obj, built, ff)]
            /\ tasks' = IF ff = 0 THEN Append(tasks, NewTask(obj)) ELSE tasks
            /\ MaySchedule(L, tasks')
    /\ UNCHANGED <<active_games, polls, nvotes, nreplies, edge_call>>

\* ---- bot.py: start_game
StartGame(g, L) ==
    /\ get_game(g) # 0
    /\ Len(games[get_game(g)].players) >= 2
    /\ RunStartRound(get_game(g), [games[get_game(g)] EXCEPT !.locked = TRUE], L)

\* ---- bot.py: next_round
NextRound(g, L) ==
    /\ get_game(g) # 0
    /\ RunStartRound(get_game(g), games[get_game(g)], L)

\* ---- bot.py: end_game
EndGame(g) ==
    /\ get_game(g) # 0
    /\ active_games' = stop_game(active_games, g)
    /\ games' = Collect(games, stop_game(active_games, g), tasks)
    /\ UNCHANGED <<tasks, polls, nvotes, nreplies, edge_call>>

\* ---- bot.py: handle_dm.  The result of a private reply of user_id to the
\* message message_id: the heap and what the user is told
handle_dm(reg, heap, user_id, message_id, text) ==
    LET hits == {i \in DOMAIN reg : user_id \in Range(heap[reg[i].obj].players)}
    IN IF hits = {} THEN [games |-> heap, reply |-> "none"]
       ELSE LET i == CHOOSE i \in hits : \A j \in hits : i <= j
                obj == reg[i].obj
                pm == IF user_id \in DOMAIN heap[obj].prompt_messages
                      THEN heap[obj].prompt_messages[user_id] ELSE EmptyMap
            IN IF message_id \notin DOMAIN pm
               THEN [games |-> heap, reply |-> "invalid"]
               ELSE [games |-> [heap EXCEPT ![obj].pending_answers[user_id][pm[message_id] + 1] = text],
                     reply |-> "recorded"]

HandleDm(u, mid, text, L) ==
    /\ MayReply(L)
    /\ handle_dm(active_games, games, u, mid, text).reply = "recorded"
    /\ games' = handle_dm(active_games, games, u, mid, text).games
    /\ nreplies' = nreplies + 1
    /\ UNCHANGED <<active_games, tasks, polls, nvotes, edge_call>>

\* handle_poll_answer if a voter's first choice were kept
handle_poll_answer_first_wins(reg, heap, user_id, poll_id, choice) ==
    LET hits == {i \in DOMAIN reg : poll_id \in DOMAIN heap[reg[i].obj].votes}
    IN IF hits = {} THEN heap
       ELSE LET i == CHOOSE i \in hits : \A j \in hits : i <= j
                obj == reg[i].obj
                game == heap[obj]
                old == game.votes[poll_id]
                cast == [v \in DOMAIN old \cup {user_id} |-> IF v \in DOMAIN old THEN old[v] ELSE choice]
                voted == [game EXCEPT !.votes[poll_id] = cast]
            IN [heap EXCEPT ![obj] =
                    IF Cardinality(DOMAIN cast) >= Len(game.players)
                    THEN calculate_poll_score(voted, poll_id)
                    ELSE voted]

\* ---- bot.py: handle_poll_answer
handle_poll_answer(reg, heap, user_id, poll_id, choice) ==
    LET hits == {i \in DOMAIN reg : poll_id \in DOMAIN heap[reg[i].obj].votes}
    IN IF hits = {} THEN heap
       ELSE LET i == CHOOSE i \in hits : \A j \in hits : i <= j
                obj == reg[i].obj
                game == heap[obj]
                old == game.votes[poll_id]
                cast == [v \in DOMAIN old \cup {user_id} |-> IF v = user_id THEN choice ELSE old[v]]
                voted == [game EXCEPT !.votes[poll_id] = cast]
            IN [heap EXCEPT ![obj] =
                    IF Cardinality(DOMAIN cast) >= Len(game.players)
                    THEN calculate_poll_score(voted, poll_id)
                    ELSE voted]

HandlePollAnswer(u, p, c, L) ==
    /\ MayVote(L)
    /\ \E i \in DOMAIN active_games : p \in DOMAIN games[active_games[i].obj].votes
    /\ games' = handle_poll_answer(active_games, games, u, p, c)
    /\ nvotes' = nvotes + 1
    /\ UNCHANGED <<active_games, tasks, polls, nreplies, edge_call>>

\* ---- GameManager._round_timer
\* asyncio.sleep wakes the tasks in the order of their deadlines: a task
\* created later passes a sleep after the tasks created before it
Earlier(i, pcs) == \A j \in 1..(i - 1) : tasks[j].pc \notin pcs

\* a reminder loop (lines 40-44 and 48-52); raises says whether a send raised
Reminder(i, from, to, raises) ==
    /\ i \in DOMAIN tasks
    /\ tasks[i].pc = from
    /\ raises => games[tasks[i].game].players # <<>>
    /\ LET ts == [tasks EXCEPT ![i] = IF raises THEN EndedTask(@.game, "failed")
                                                ELSE [@ EXCEPT !.pc = to]]
       IN /\ tasks' = ts
          /\ games' = Collect(games, active_games, ts)
    /\ UNCHANGED <<active_games, polls, nvotes, nreplies, edge_call>>

HalfTime(i, raises) ==
    /\ Reminder(i, "half", "warn", raises)
    /\ Earlier(i, {"half"})

LastWarning(i, raises) ==
    /\ Reminder(i, "warn", "last", raises)
    /\ Earlier(i, {"half", "warn"})

\* lines 57-61: mark unanswered prompts
Backfill(game) ==
    [game EXCEPT !.pending_answers =
        [u \in DOMAIN @ |-> [idx \in DOMAIN @[u] |-> IF @[u][idx] = None THEN NoResponse ELSE @[u][idx]]]]

\* the task's step from one poll (or from the deadline) to the next poll or the scoreboard
Advance(i, t, k, game) ==
    LET o == OpenPoll(t, k, game)
        ts == [tasks EXCEPT ![i] = o.task]
    IN /\ tasks' = ts
       /\ polls' = o.polls
       /\ games' = Collect([games EXCEPT ![t.game] = o.game], active_games, ts)

\* lines 55-64 and start_versus_phase up to its first wait
Deadline(i) ==
    /\ i \in DOMAIN tasks
    /\ tasks[i].pc = "last"
    /\ Earlier(i, {"half", "warn", "last"})
    /\ LET filled == Backfill(games[tasks[i].game])
           pairs == build_versus_pairs(filled)
       IN Advance(i, [tasks[i] EXCEPT !.pairs = pairs], 1, [filled EXCEPT !.versus_pairs = pairs])
    /\ UNCHANGED <<active_games, nvotes, nreplies, edge_call>>

\* the clock passes POLL_TIMING for the poll the task waits on (line 280)
PollTimeElapses(i) ==
    /\ i \in DOMAIN tasks
    /\ tasks[i].pc = "wait"
    /\ ~tasks[i].elapsed
    /\ \A j \in DOMAIN tasks : (tasks[j].pc = "wait" /\ ~tasks[j].elapsed) => tasks[j].poll >= tasks[i].poll
    /\ tasks' = [tasks EXCEPT ![i].elapsed = TRUE]
    /\ UNCHANGED <<active_games, games, polls, nvotes, nreplies, edge_call>>

\* one turn of the loop of lines 279-282 that does not go back to sleep
PollTick(i) ==
    /\ i \in DOMAIN tasks
    /\ tasks[i].pc = "wait"
    /\ LET t == tasks[i]
           game == games[t.game]
       IN IF t.poll \notin DOMAIN game.votes
          THEN /\ tasks' = [tasks EXCEPT ![i] = EndedTask(t.game, "failed")]
               /\ games' = Collect(games, active_games, tasks')
               /\ polls' = polls
          ELSE /\ \/ Cardinality(DOMAIN game.votes[t.poll]) >= Len(game.players)
                  \/ t.elapsed
               /\ Advance(i, t, t.k + 1, game)
    /\ UNCHANGED <<active_games, nvotes, nreplies, edge_call>>

\* ---- the specifications

\* sessions come and go in the group chats; one round is played
Life == Limits(MaxGames, 1, 1, 0, 0)

NextLife ==
    \/ \E g \in Groups : InitGame(g, Life)
    \/ \E g \in Groups, u \in Users : JoinGame(g, u)
    \/ \E g \in Groups : StartGame(g, Life)
    \/ \E g \in Groups : NextRound(g, Life)
    \/ \E g \in Groups : EndGame(g)
    \/ \E i \in TaskIds, raises \in BOOLEAN : HalfTime(i, raises)
    \/ \E i \in TaskIds, raises \in BOOLEAN : LastWarning(i, raises)
    \/ \E i \in TaskIds : Deadline(i)
    \/ \E i \in TaskIds : PollTimeElapses(i)
    \/ \E i \in TaskIds : PollTick(i)

Spec == Init /\ [][NextLife]_vars

\* one session plays one round and the group votes
Voting == Limits(1, 1, 1, MaxVotes, 0)

NextVoting ==
    \/ \E g \in Groups : InitGame(g, Voting)
    \/ \E g \in Groups, u \in Users : JoinGame(g, u)
    \/ \E g \in Groups : StartGame(g, Voting)
    \/ \E g \in Groups : NextRound(g, Voting)
    \/ \E g \in Groups : EndGame(g)
    \/ \E u \in Users, c \in {0, 1}, p \in PollIds : HandlePollAnswer(u, p, c, Voting)
    \/ \E i \in TaskIds, raises \in BOOLEAN : HalfTime(i, raises)
    \/ \E i \in TaskIds, raises \in BOOLEAN : LastWarning(i, raises)
    \/ \E i \in TaskIds : Deadline(i)
    \/ \E i \in TaskIds : PollTimeElapses(i)
    \/ \E i \in TaskIds : PollTick(i)

SpecVoting == Init /\ [][NextVoting]_vars

\* one session plays one round and the players answer their prompts
Answering == Limits(1, 1, 1, 0, MaxReplies)

NextAnswering ==
    \/ \E g \in Groups : InitGame(g, Answering)
    \/ \E g \in Groups, u \in Users : JoinGame(g, u)
    \/ \E g \in Groups : StartGame(g, Answering)
    \/ \E g \in Groups : NextRound(g, Answering)
    \/ \E g \in Groups : EndGame(g)
    \/ \E u \in Users, text \in Texts, mid \in PromptMsgs : HandleDm(u, mid, text, Answering)
    \/ \E i \in TaskIds, raises \in BOOLEAN : HalfTime(i, raises)
    \/ \E i \in TaskIds, raises \in BOOLEAN : LastWarning(i, raises)
    \/ \E i \in TaskIds : Deadline(i)
    \/ \E i \in TaskIds : PollTimeElapses(i)
    \/ \E i \in TaskIds : PollTick(i)

SpecAnswering == Init /\ [][NextAnswering]_vars

\* the scoring of one poll: a session of n players whose first poll, between
\* players 1 and 2, holds the vote of every player, as when handle_poll_answer
\* calls calculate_poll_score (bot.py:170-171); every way of voting is an input
PollGame(n, votes) ==
    [Game(1) EXCEPT !.players = [i \in 1..n |-> i], !.round = 1, !.locked = TRUE,
                    !.scores = [u \in 1..n |-> DZero],
                    !.votes = (1 :> votes), !.poll_map = (1 :> <<1, 2>>)]

InitPoints ==
    \E n \in 2..MaxVoters : \E votes \in [1..n -> {0, 1}] :
        /\ active_games = <<[group |-> 1, obj |-> 1]>>
        /\ games = <<PollGame(n, votes)>>
        /\ tasks = <<>>
        /\ polls = 1
        /\ nvotes = n
        /\ nreplies = 0
        /\ edge_call = NoCall

ScorePoll ==
    /\ 1 \notin games[1].completed_polls
    /\ games' = [games EXCEPT ![1] = calculate_poll_score(@, 1)]
    /\ UNCHANGED <<active_games, tasks, polls, nvotes, nreplies, edge_call>>

SpecPoints == InitPoints /\ [][ScorePoll]_vars

\* _build_prompt_edges on its own: the arguments are a list of n distinct
\* player identifiers in any order, n from 0 to MaxIds, and any m from -1 to
\* MaxM; the call returns one of the results the shuffle of line 109 allows
InitEdges ==
    \E n \in 0..MaxIds : \E user_ids \in Perms(1..n) : \E m \in (0 - 1)..MaxM :
        /\ active_games = <<>>
        /\ games = <<>>
        /\ tasks = <<>>
        /\ polls = 0
        /\ nvotes = 0
        /\ nreplies = 0
        /\ edge_call = [NoCall EXCEPT !.user_ids = user_ids, !.m = m]

BuildPromptEdges ==
    /\ ~edge_call.returned
    /\ \E out \in build_prompt_edges(edge_call.user_ids, edge_call.m) :
          edge_call' = [edge_call EXCEPT !.returned = TRUE, !.edges = out[1], !.effective_m = out[2]]
    /\ UNCHANGED <<active_games, games, tasks, polls, nvotes, nreplies>>

SpecEdges == InitEdges /\ [][BuildPromptEdges]_vars

\* one round of a session of up to MaxIds players, from the full lobby to the
\* scoreboard, with nobody voting
Pairing == Limits(1, 1, 1, 0, 0)

InitPairing ==
    \E n \in 2..MaxIds :
        /\ active_games = <<[group |-> 1, obj |-> 1]>>
        /\ games = <<[Game(1) EXCEPT !.players = [i \in 1..n |-> i]]>>
        /\ tasks = <<>>
        /\ polls = 0
        /\ nvotes = 0
        /\ nreplies = 0
        /\ edge_call = NoCall

NextPairing ==
    \/ \E g \in Groups : StartGame(g, Pairing)
    \/ \E i \in TaskIds, raises \in BOOLEAN : HalfTime(i, raises)
    \/ \E i \in TaskIds, raises \in BOOLEAN : LastWarning(i, raises)
    \/ \E i \in TaskIds : Deadline(i)
    \/ \E i \in TaskIds : PollTimeElapses(i)
    \/ \E i \in TaskIds : PollTick(i)

SpecPairing == InitPairing /\ [][NextPairing]_vars

\* two sessions with their lobbies filled, whose rounds start and run to the
\* first poll while a player answers
Sessions == Limits(2, 2, 2, 0, 1)

InitSessions ==
    \E n1, n2 \in 2..NumUsers :
        /\ active_games = <<[group |-> 1, obj |-> 1], [group |-> 2, obj |-> 2]>>
        /\ games = <<[Game(1) EXCEPT !.players = [i \in 1..n1 |-> i]],
                     [Game(2) EXCEPT !.players = [i \in 1..n2 |-> i]]>>
        /\ tasks = <<>>
        /\ polls = 0
        /\ nvotes = 0
        /\ nreplies = 0
        /\ edge_call = NoCall

NextSessions ==
    \/ \E g \in Groups : StartGame(g, Sessions)
    \/ \E u \in Users, text \in Texts, mid \in PromptMsgs : HandleDm(u, mid, text, Sessions)
    \/ \E i \in TaskIds, raises \in BOOLEAN : HalfTime(i, raises)
    \/ \E i \in TaskIds, raises \in BOOLEAN : LastWarning(i, raises)
    \/ \E i \in TaskIds : Deadline(i)

SpecSessions == InitSessions /\ [][NextSessions]_vars

\* two lobbies with at most LobbyRoom free places, and one more user than
\* a lobby holds pressing the join buttons
Joiners == 1..(MAX_PLAYERS + 1)

InitLobby ==
    \E n1, n2 \in (MAX_PLAYERS - LobbyRoom)..MAX_PLAYERS :
        /\ active_games = <<[group |-> 1, obj |-> 1], [group |-> 2, obj |-> 2]>>
        /\ games = <<[Game(1) EXCEPT !.players = [i \in 1..n1 |-> i]],
                     [Game(2) EXCEPT !.players = [i \in 1..n2 |-> i]]>>
        /\ tasks = <<>>
        /\ polls = 0
        /\ nvotes = 0
        /\ nreplies = 0
        /\ edge_call = NoCall

NextLobby ==
    \/ \E g \in Groups, u \in Joiners : JoinGame(g, u)
    \/ \E g \in Groups : EndGame(g)

SpecLobby == InitLobby /\ [][NextLobby]_vars

\* one session with its lobby filled, whose round runs to the scoreboard
\* while the group votes
InitPolls ==
    \E n \in 2..NumUsers :
        /\ active_games = <<[group |-> 1, obj |-> 1]>>
        /\ games = <<[Game(1) EXCEPT !.players = [i \in 1..n |-> i]]>>
        /\ tasks = <<>>
        /\ polls = 0
        /\ nvotes = 0
        /\ nreplies = 0
        /\ edge_call = NoCall

NextPolls ==
    \/ \E g \in Groups : StartGame(g, Voting)
    \/ \E u \in Users, c \in {0, 1}, p \in PollIds : HandlePollAnswer(u, p, c, Voting)
    \/ \E i \in TaskIds, raises \in BOOLEAN : HalfTime(i, raises)
    \/ \E i \in TaskIds, raises \in BOOLEAN : LastWarning(i, raises)
    \/ \E i \in TaskIds : Deadline(i)
    \/ \E i \in TaskIds : PollTimeElapses(i)
    \/ \E i \in TaskIds : PollTick(i)

SpecPolls == InitPolls /\ [][NextPolls]_vars

\* one session of two players that plays up to MaxRound rounds, a round
\* being started while the timer of the round before may still run
TwoRounds == Limits(1, MaxRound, MaxTasks, MaxVotes, 0)

InitRounds ==
    /\ active_games = <<[group |-> 1, obj |-> 1]>>
    /\ games = <<[Game(1) EXCEPT !.players = <<1, 2>>]>>
    /\ tasks = <<>>
    /\ polls = 0
    /\ nvotes = 0
    /\ nreplies = 0
    /\ edge_call = NoCall

NextRounds ==
    \/ \E g \in Groups : StartGame(g, TwoRounds)
    \/ \E g \in Groups : NextRound(g, TwoRounds)
    \/ \E u \in Users, c \in {0, 1}, p \in PollIds : HandlePollAnswer(u, p, c, TwoRounds)
    \/ \E i \in TaskIds, raises \in BOOLEAN : HalfTime(i, raises)
    \/ \E i \in TaskIds, raises \in BOOLEAN : LastWarning(i, raises)
    \/ \E i \in TaskIds : Deadline(i)
    \/ \E i \in TaskIds : PollTimeElapses(i)
    \/ \E i \in TaskIds : PollTick(i)

SpecRounds == InitRounds /\ [][NextRounds]_vars

\* ---- the claims

\* what a running task has done in a step: sent a reminder, back-filled and
\* opened a poll, opened the next poll or emitted the scoreboard
Acted(i) == tasks'[i].pc \notin {tasks[i].pc, "failed"} \/ tasks'[i].poll # tasks[i].poll

\* C1: once end_game has removed a session (here: one that start_game had
\* started), its pending round timer task does nothing more: no reminder, no
\* back-fill, no poll, no scoreboard.
C1_NothingAfterEnd ==
    [][\A i \in DOMAIN tasks :
          (Running(tasks[i]) /\ tasks[i].game \notin ActiveObjs /\ games[tasks[i].game].locked)
              => ~Acted(i)]_vars

ScoreChanged(o) ==
    \E u \in DOMAIN games[o].scores \cap DOMAIN games'[o].scores :
        games'[o].scores[u] # games[o].scores[u]

\* C2: a poll is scored at most once: a step changes a score only when it
\* scores a poll that was not scored before.
C2_ScoredAtMostOnce ==
    [][\A o \in DOMAIN games :
          ScoreChanged(o) =>
              \E p \in games'[o].completed_polls : p \notin games[o].completed_polls]_vars

\* C3: when a task emits the scoreboard, every poll of the round has been scored.
C3_ScoredBeforeScoreboard ==
    [][\A i \in DOMAIN tasks :
          (tasks[i].pc = "wait" /\ tasks'[i].pc = "done") =>
              DOMAIN games[tasks[i].game].poll_map \subseteq games[tasks[i].game].completed_polls]_vars

\* C4: within a round, an answer slot that holds a genuine answer keeps it.
C4_GenuineAnswerKept ==
    [][\A o \in DOMAIN games : \A u \in DOMAIN games[o].pending_answers :
          \A idx \in DOMAIN games[o].pending_answers[u] :
              (games[o].pending_answers[u][idx] \in Texts /\ games'[o].round = games[o].round)
                  => games'[o].pending_answers[u][idx] = games[o].pending_answers[u][idx]]_vars

\* C5: a session in which a round has been started is locked.
C5_StartedIsLocked ==
    \A o \in DOMAIN games : games[o].round >= 1 => games[o].locked

\* C6: a round is started only in a session of at least two players.
C6_RoundNeedsTwoPlayers ==
    [][\A o \in DOMAIN games :
          games'[o].round > games[o].round => Len(games[o].players) >= 2]_vars

\* C7: the registry holds at most one session per group; create_game for a
\* group that has a session returns None and changes nothing; stop_game leaves
\* the group without a session, and create_game then makes a new one.
C7_OneSessionPerGroup ==
    /\ \A i, j \in DOMAIN active_games :
          (active_games[i].group = active_games[j].group \/ active_games[i].obj = active_games[j].obj)
              => i = j
    /\ \A g \in RegGroups(active_games) :
          /\ create_game(active_games, games, g).ret = 0
          /\ create_game(active_games, games, g).active_games = active_games
          /\ create_game(active_games, games, g).games = games
          /\ g \notin RegGroups(stop_game(active_games, g))
          /\ create_game(stop_game(active_games, g), games, g).ret = Len(games) + 1
          /\ \A h \in RegGroups(active_games) \ {g} :
                get_game_in(stop_game(active_games, g), h) # 0

\* C7 witness: a group whose session was ended has a new session, while the
\* round timer task of the old one still runs.
C7_Witness ==
    \E o1, o2 \in DOMAIN games :
        /\ o1 < o2
        /\ games[o1].group_id = games[o2].group_id
        /\ o1 \notin ActiveObjs
        /\ o2 \in ActiveObjs
        /\ Len(games[o1].players) >= 2

\* C8: a poll's wait ends only when every player has voted on it or the
\* voting timeout has elapsed.
C8_WaitEndsWhenAllPlayersVoted ==
    [][\A i \in DOMAIN tasks :
          (tasks[i].pc = "wait" /\ Acted(i)) =>
              \/ tasks[i].elapsed
              \/ Range(games[tasks[i].game].players)
                    \subseteq DOMAIN games[tasks[i].game].votes[tasks[i].poll]]_vars

\* the players that hold a prompt whose message was not registered
Unserved(game) ==
    {u \in DOMAIN game.assigned_prompts :
        Cardinality(DOMAIN game.prompt_messages[u]) < Len(game.assigned_prompts[u])}

\* C9: a round start (of two players or more) in which the delivery to one
\* player fails still serves the other players and schedules the round timer.
C9_RoundSurvivesDeliveryFailure ==
    [][\A o \in DOMAIN games :
          (games'[o].round > games[o].round /\ Len(games[o].players) >= 2) =>
              /\ Cardinality(Unserved(games'[o])) <= 1
              /\ Len(tasks') = Len(tasks) + 1
              /\ tasks'[Len(tasks')].game = o]_vars

\* exact values, in units of 2^Fine, finer than the last place of any score
Fine == 0 - 2 * MantBits

ExactOf(x) == ShiftLeft(x.m, x.e - Fine)

BigEq(a, b) == BigLeq(a, b) /\ BigLeq(b, a)

Near(a, b, tol) == BigLeq(a, big_add(b, tol, 0)) /\ BigLeq(b, big_add(a, tol, 0))

\* one unit in the last place of 100.0, 2^-46
Ulp100 == ShiftLeft(<<1>>, FloatOf(100).e - Fine)

OldScore(o, u) == IF u \in DOMAIN games[o].scores THEN games[o].scores[u] ELSE DZero

VotesFor(o, p, c) == Cardinality({v \in DOMAIN games[o].votes[p] : games[o].votes[p][v] = c})

Total(o, p) == Cardinality(DOMAIN games[o].votes[p])

\* the step scores poll p of Game o, which holds votes
Scores(o, p) ==
    /\ p \in DOMAIN games[o].poll_map
    /\ p \in games'[o].completed_polls \ games[o].completed_polls
    /\ Total(o, p) > 0

C11_ZeroVotePollGivesFifty ==
    [][\A i \in DOMAIN tasks :
          (tasks[i].pc = "wait" /\ tasks'[i].pc = "done") =>
              LET game == games[tasks[i].game]
              IN \A p \in DOMAIN game.poll_map :
                    game.votes[p] = EmptyMap =>
                        /\ p \in game.completed_polls
                        /\ float_leq(FloatOf(50), game.scores[game.poll_map[p][1]])
                        /\ float_leq(FloatOf(50), game.scores[game.poll_map[p][2]])]_vars

\* the unordered pair of an edge, and the number of edges a player is in
Pair(edge) == {edge[1], edge[2]}

Degree(edges, u) == Cardinality({i \in DOMAIN edges : u \in Pair(edges[i])})

\* the call has returned for n players and degree m
Returned(n, m) ==
    /\ edge_call.returned
    /\ Len(edge_call.user_ids) = n
    /\ edge_call.m = m

\* C12: for 3 or more distinct players and m >= 1 the edge list holds no
\* self-edge and no two edges with the same unordered pair of players.
C12_NoSelfEdgeNoDuplicatePair ==
    (edge_call.returned /\ Len(edge_call.user_ids) >= 3 /\ edge_call.m >= 1) =>
        /\ \A i \in DOMAIN edge_call.edges : edge_call.edges[i][1] # edge_call.edges[i][2]
        /\ \A i, j \in DOMAIN edge_call.edges :
              Pair(edge_call.edges[i]) = Pair(edge_call.edges[j]) => i = j

\* C12 witness: the call returned for 4 players and m = 3, the ring and the
\* opposite matching, 6 edges in all.
C12_Witness == Returned(4, 3) /\ Len(edge_call.edges) = 6

\* C13: for 2 players and m >= 1 the builder returns exactly m edges, each
\* the pair of the two players, and reports the degree m; for fewer than 2
\* players or m <= 0 it returns no edges.
C13_TwoPlayersRepeatThePair ==
    edge_call.returned =>
        /\ (Len(edge_call.user_ids) = 2 /\ edge_call.m >= 1) =>
              /\ Len(edge_call.edges) = edge_call.m
              /\ \A i \in DOMAIN edge_call.edges :
                    edge_call.edges[i] = <<edge_call.user_ids[1], edge_call.user_ids[2]>>
              /\ edge_call.effective_m = edge_call.m
        /\ (Len(edge_call.user_ids) < 2 \/ edge_call.m <= 0) => edge_call.edges = <<>>

\* C13 witness: the call returned for 2 players and m = 3, three times the pair.
C13_Witness == Returned(2, 3) /\ Len(edge_call.edges) = 3

\* C14: for more than 2 players every player is in exactly effective_m edges,
\* effective_m being the degree the builder reports; for m >= 0 it is
\* min(m, N - 1), less one when N * min(m, N - 1) is odd.  The sum of the
\* degrees is even and there are N * effective_m / 2 edges.
C14_EveryPlayerHasEffectiveDegree ==
    (edge_call.returned /\ Len(edge_call.user_ids) > 2) =>
        LET n == Len(edge_call.user_ids)
            least == IF edge_call.m < n - 1 THEN edge_call.m ELSE n - 1
        IN /\ \A u \in Range(edge_call.user_ids) : Degree(edge_call.edges, u) = edge_call.effective_m
           /\ edge_call.m >= 0 =>
                 edge_call.effective_m = (IF (n * least) % 2 = 1 THEN least - 1 ELSE least)
           /\ (n * edge_call.effective_m) % 2 = 0
           /\ 2 * Len(edge_call.edges) = n * edge_call.effective_m

\* C14 witness: the call returned for 5 players and m = 2 with the 5-cycle,
\* every player tied to the next one of the list, 5 edges.
C14_Witness ==
    /\ Returned(5, 2)
    /\ Len(edge_call.edges) = 5
    /\ \A i \in 1..5 : \E j \in DOMAIN edge_call.edges :
          Pair(edge_call.edges[j]) = {edge_call.user_ids[i], edge_call.user_ids[(i % 5) + 1]}

\* the prompt identifiers assigned in a Game, and the players that hold one
AssignedIds(game) == UNION {Range(game.assigned_prompts[u]) : u \in DOMAIN game.assigned_prompts}

Holders(game, pid) == {u \in DOMAIN game.assigned_prompts : pid \in Range(game.assigned_prompts[u])}

\* C15: in every round each assigned prompt identifier is held by exactly
\* two players, and build_versus_pairs yields exactly one matchup for each
\* prompt identifier, between its two holders: as many matchups as edges.
C15_OneMatchupPerPrompt ==
    \A o \in DOMAIN games :
        LET game == games[o]
            pairs == build_versus_pairs(game)
        IN /\ AssignedIds(game) = {<<game.round, e>> : e \in 0..(Cardinality(AssignedIds(game)) - 1)}
           /\ \A pid \in AssignedIds(game) :
                 /\ Cardinality(Holders(game, pid)) = 2
                 /\ Cardinality({k \in DOMAIN pairs : pairs[k][1] = pid}) = 1
           /\ Len(pairs) = Cardinality(AssignedIds(game))
           /\ \A k \in DOMAIN pairs :
                 /\ pairs[k][1] \in AssignedIds(game)
                 /\ {pairs[k][2], pairs[k][4]} = Holders(game, pairs[k][1])
                 /\ game.assigned_prompts[pairs[k][2]][pairs[k][3] + 1] = pairs[k][1]
                 /\ game.assigned_prompts[pairs[k][4]][pairs[k][5] + 1] = pairs[k][1]
           /\ game.versus_pairs # <<>> => game.versus_pairs = pairs

\* C15 witness: the timer of a round of 5 players has built the 5 matchups
\* of the 5 edges and waits on the first poll.
C15_Witness ==
    \E i \in DOMAIN tasks :
        /\ tasks[i].pc = "wait"
        /\ Len(games[tasks[i].game].players) = 5
        /\ Len(games[tasks[i].game].versus_pairs) = 5
        /\ Cardinality(AssignedIds(games[tasks[i].game])) = 5

\* the active sessions in which user u plays and holds the prompt message mid
KnownIn(u, mid) ==
    {o \in ActiveObjs : /\ u \in Range(games[o].players)
                        /\ u \in DOMAIN games[o].prompt_messages
                        /\ mid \in DOMAIN games[o].prompt_messages[u]}

\* C16: a private reply is refused only when the message replied to is no
\* prompt message of the current round in any active session the user plays
\* in, and a refused reply changes no slot; a reply to a known prompt message
\* is recorded and fills exactly the slot of that prompt in that session.
C16_ReplyRefusedOnlyIfUnknown ==
    \A u \in Users, mid \in PromptMsgs, text \in Texts :
        LET r == handle_dm(active_games, games, u, mid, text)
        IN /\ r.reply # "recorded" => (KnownIn(u, mid) = {} /\ r.games = games)
           /\ \A o \in KnownIn(u, mid) :
                 /\ r.reply = "recorded"
                 /\ r.games = [games EXCEPT
                        ![o].pending_answers[u][games[o].prompt_messages[u][mid] + 1] = text]

\* C17: a poll's vote table holds one entry per voter: a cast stores the
\* voter's choice under the voter's identifier and leaves the other entries
\* alone, and a cast by a voter who already has an entry replaces that entry
\* (the last cast wins) without changing the number of entries.
C17_LastCastWins ==
    \A u \in Users, p \in PollIds, c \in {0, 1} :
        \A o \in ActiveObjs :
            p \in DOMAIN games[o].votes =>
                LET old == games[o].votes[p]
                    new == handle_poll_answer(active_games, games, u, p, c)[o].votes[p]
                IN /\ DOMAIN new = DOMAIN old \cup {u}
                   /\ new[u] = c
                   /\ \A v \in DOMAIN old \ {u} : new[v] = old[v]
                   /\ u \in DOMAIN old => Cardinality(DOMAIN new) = Cardinality(DOMAIN old)

\* two casts went to the only poll opened so far, which holds one entry
C17_Witness ==
    /\ nvotes = 2
    /\ polls = 1
    /\ \E o \in ActiveObjs : \E p \in DOMAIN games[o].votes :
           /\ Cardinality(DOMAIN games[o].votes[p]) = 1
           /\ Len(games[o].players) = 3

\* C18: no session ever holds more than MAX_PLAYERS players or the same
\* player twice, and a press of the join button by a user who is already a
\* player, or in a lobby that holds MAX_PLAYERS players, is refused and
\* changes nothing.
C18_JoinRefusedWhenFullOrPresent ==
    /\ \A o \in DOMAIN games :
          /\ Len(games[o].players) <= MAX_PLAYERS
          /\ Cardinality(Range(games[o].players)) = Len(games[o].players)
    /\ \A g \in Groups, u \in Joiners :
          get_game(g) # 0 =>
              LET game == games[get_game(g)]
                  r == join_game(active_games, games, g, u)
              IN (u \in Range(game.players) \/ Len(game.players) >= MAX_PLAYERS) =>
                    /\ r.reply # "joined"
                    /\ r.games = games

\* a lobby filled by joins to MAX_PLAYERS players, while a user who is not
\* in it can still press the button
C18_Witness ==
    \E o \in ActiveObjs :
        /\ Len(games[o].players) = MAX_PLAYERS
        /\ games[o].players[MAX_PLAYERS] = MAX_PLAYERS + 1
        /\ Joiners \ Range(games[o].players) # {}

\* C19: for as long as a session lives, a score entry starts at 0.0, is
\* never removed and never decreases, and an existing entry changes only in
\* a step that handles a vote: starting a round keeps every entry.
C19_ScoresOnlyGrow ==
    [][\A o \in DOMAIN games :
          games'[o].group_id = games[o].group_id =>
              /\ \A u \in DOMAIN games[o].scores :
                    /\ u \in DOMAIN games'[o].scores
                    /\ float_leq(games[o].scores[u], games'[o].scores[u])
                    /\ games'[o].scores[u] # games[o].scores[u] => nvotes' = nvotes + 1
              /\ \A u \in DOMAIN games'[o].scores \ DOMAIN games[o].scores :
                    games'[o].scores[u] = DZero]_vars

\* the second round was started and a player still holds points of the first
C19_Witness ==
    \E o \in ActiveObjs :
        /\ games[o].round = 2
        /\ games[o].completed_polls = {}
        /\ \E u \in DOMAIN games[o].scores : games[o].scores[u] # DZero

\* a round timer of the session o waits on a poll it opened
PollOpen(o) == \E i \in DOMAIN tasks : tasks[i].game = o /\ tasks[i].pc = "wait"

\* the step opens a poll of the session o
Opens(o) ==
    /\ polls' = polls + 1
    /\ \E i \in DOMAIN tasks' : tasks'[i].game = o /\ tasks'[i].pc = "wait" /\ tasks'[i].poll = polls'

NoUnset(game) ==
    \A u \in DOMAIN game.pending_answers :
        \A idx \in DOMAIN game.pending_answers[u] : game.pending_answers[u][idx] # None

\* C20: the phases of a session follow one another: a poll is opened only
\* when no answer slot of the session's current round is unset, and no round
\* is started (which resets the slot, vote and poll tables) while a poll of
\* the session is open.
C20_PhasesSequential ==
    [][\A o \in DOMAIN games :
          /\ Opens(o) => NoUnset(games'[o])
          /\ PollOpen(o) =>
                /\ games'[o].round = games[o].round
                /\ games[o].votes # EmptyMap => games'[o].votes # EmptyMap]_vars

\* where a prompt identifier is first met by the loops of
\* build_versus_pairs: the position of its first holder among the players
\* and its index in that holder's prompts
FirstHeld(game, pid) ==
    LET h == CHOOSE i \in DOMAIN game.players :
                 /\ game.players[i] \in Holders(game, pid)
                 /\ \A j \in 1..(i - 1) : game.players[j] \notin Holders(game, pid)
        held == game.assigned_prompts[game.players[h]]
    IN <<h, CHOOSE idx \in DOMAIN held : held[idx] = pid>>

Before(a, b) == a[1] < b[1] \/ (a[1] = b[1] /\ a[2] < b[2])

InHolderOrder(game, pairs) ==
    /\ {pairs[k][1] : k \in DOMAIN pairs} = AssignedIds(game)
    /\ \A a, b \in DOMAIN pairs :
          a < b => Before(FirstHeld(game, pairs[a][1]), FirstHeld(game, pairs[b][1]))

TimerAlive(o) == \E i \in DOMAIN tasks : tasks[i].game = o /\ tasks[i].pc # "failed"

\* C22: every started round of a session that is not ended comes to its
\* scoreboard.  The scoreboard is sent by the round's timer task and by
\* nothing else, so a session in its first round has a timer that runs or
\* has sent the scoreboard, and no timer of it has ended without sending it.
C22_RoundReachesScoreboard ==
    \A o \in ActiveObjs :
        games[o].round = 1 =>
            /\ TimerAlive(o)
            /\ \A i \in DOMAIN tasks : tasks[i].game = o => tasks[i].pc # "failed"

\* the degree the builder reports for n players and the default m
DefaultDegree(n) == IF n < 2 THEN 0 ELSE IF n = 2 THEN DEFAULT_M ELSE EffectiveM(n, DEFAULT_M)

HasSlot(game, u, idx) ==
    /\ u \in DOMAIN game.pending_answers
    /\ idx + 1 \in DOMAIN game.pending_answers[u]

\* C23: once a round was started, the players of the round (the players at
\* the time start_round ran, all still players of the session) have as many
\* answer slots as assigned prompts, both the builder's effective degree, so
\* every index registered for a prompt message and every (player, index) of
\* a matchup, in the Game or held by a running timer, is a slot of that player.
C23_SlotsMatchPrompts ==
    \A o \in DOMAIN games :
        LET game == games[o]
        IN game.round >= 1 =>
              /\ DOMAIN game.assigned_prompts \subseteq Range(game.players)
              /\ DOMAIN game.pending_answers = DOMAIN game.assigned_prompts
              /\ DOMAIN game.prompt_messages = DOMAIN game.assigned_prompts
              /\ \A u \in DOMAIN game.assigned_prompts :
                    /\ Len(game.pending_answers[u]) = Len(game.assigned_prompts[u])
                    /\ Len(game.pending_answers[u]) = DefaultDegree(Cardinality(DOMAIN game.assigned_prompts))
                    /\ \A mid \in DOMAIN game.prompt_messages[u] :
                          HasSlot(game, u, game.prompt_messages[u][mid])
              /\ \A k \in DOMAIN game.versus_pairs :
                    /\ HasSlot(game, game.versus_pairs[k][2], game.versus_pairs[k][3])
                    /\ HasSlot(game, game.versus_pairs[k][4], game.versus_pairs[k][5])
              /\ \A i \in DOMAIN tasks :
                    (tasks[i].game = o /\ Running(tasks[i])) =>
                        \A k \in DOMAIN tasks[i].pairs :
                            /\ HasSlot(game, tasks[i].pairs[k][2], tasks[i].pairs[k][3])
                            /\ HasSlot(game, tasks[i].pairs[k][4], tasks[i].pairs[k][5])

\* a round of three players whose prompts all went out and whose matchups
\* were built
C23_Witness ==
    \E o \in ActiveObjs :
        /\ games[o].round = 1
        /\ Len(games[o].players) = 3
        /\ Len(games[o].versus_pairs) = 3
        /\ \A u \in DOMAIN games[o].prompt_messages :
              Cardinality(DOMAIN games[o].prompt_messages[u]) = DEFAULT_M

====
